---------------------------- MODULE Spec2Model ----------------------------
(***************************************************************************)
(* A model of pystarlab (src/pystarlab/starlab.py): the story codec        *)
(* (Story.from_buf, Story.from_string, Story.__str__), the pipeline        *)
(* (Story.from_single_command, Story.apply_command,                        *)
(* Story.from_command_list), two threads that chain apply_command, and the *)
(* construction of a command object (Option, Command, Makeking).           *)
(*                                                                         *)
(* A text is a sequence of characters, a character a one-character string. *)
(* A line is a sequence of characters holding no newline.  A Story is a    *)
(* record [kind, story_lines, story_vals, story_subobjects]; story_vals,   *)
(* a Python dict, is the sequence of its <<key, value>> items in insertion *)
(* order, with unique keys.                                                *)
(***************************************************************************)
EXTENDS Naturals, Sequences, FiniteSets

VARIABLES
    buf,                \* the lines of buffered_result consumed so far
    story_stack,        \* from_buf: the stories still open, innermost last
    stories_to_return,  \* from_buf: the top-level stories closed so far
    pc,                 \* where the caller is
    outcome,            \* what from_buf did: a Story, a list, or the exception
    node,               \* the Story the caller serializes
    text,               \* str(node)
    reparsed,           \* Story.from_string(text)
    text2,              \* str(reparsed)
    given,              \* from_command_list: the commands as the caller gave them
    command_list,       \* from_command_list: the caller's list object
    ppc,                \* where the pipeline run is
    stage,              \* the number of the stage being run, from 1
    current_story,      \* from_command_list: current_story, a Story or a list
    self,               \* apply_command: the story the command is applied to
    f,                  \* apply_command: the temporary file
    process,            \* the Popen object of the stage
    story_lines,        \* the lines read from the stdout of the process
    result,             \* what from_command_list returned or raised
    spawned,            \* every process spawned, in order: command, stdin, when
    exits,              \* the exit status of every process that has ended
    command,            \* the command of the stage being run
    stage_results,      \* what every stage invocation returned or raised
    kwargs,             \* Makeking(**kwargs): the keyword arguments
    options,            \* Command.options: the Option objects, in dict order
    name,               \* Command.name
    option,             \* parse_args_options: the place of the loop in options
    cpc,                \* where the construction of the command is
    shared,             \* the Story two concurrent apply_command calls share
    runs,               \* the frame of each of the concurrent calls
    lines_read,         \* from_buf on objects: the lines consumed so far
    objects,            \* every Story object created, in order of creation
    stack_refs,         \* story_stack, as references to the objects
    return_refs,        \* stories_to_return, as references to the objects
    hpc                 \* where from_buf on objects is

codecVars == <<buf, story_stack, stories_to_return, pc, outcome, node, text,
               reparsed, text2>>

pipeVars == <<given, command_list, ppc, stage, current_story, self, f, process,
              story_lines, result, spawned, exits, command, stage_results>>

cmdVars == <<kwargs, options, name, option, cpc>>

runVars == <<shared, runs>>

heapVars == <<lines_read, objects, stack_refs, return_refs, hpc>>

vars == <<codecVars, pipeVars, cmdVars, runVars, heapVars>>

(***************************************************************************)
(* Bounds of the model.                                                    *)
(***************************************************************************)
MaxLines == 5

MaxStages == 3

(***************************************************************************)
(* Characters.                                                             *)
(***************************************************************************)
NL == "\n"

WordChars == {"A", "B", "L", "o", "g", "a", "b", "c", "x", "1", "2", "3"}

Whitespace == {" ", NL}

\* ord(c): the code point of a character, which is what Python compares.
ord(c) ==
    CASE c = NL  -> 10
      [] c = " " -> 32
      [] c = "(" -> 40
      [] c = ")" -> 41
      [] c = "1" -> 49
      [] c = "2" -> 50
      [] c = "3" -> 51
      [] c = "=" -> 61
      [] c = "A" -> 65
      [] c = "B" -> 66
      [] c = "L" -> 76
      [] c = "a" -> 97
      [] c = "b" -> 98
      [] c = "c" -> 99
      [] c = "g" -> 103
      [] c = "o" -> 111
      [] c = "x" -> 120

\* The kind that switches the attribute heuristic off: the literal "Log".
Log == <<"L", "o", "g">>

(***************************************************************************)
(* The lines an input is made of.                                          *)
(***************************************************************************)
InputLines ==
    { <<"(", "A">>,                         \* (A
      <<"(", "L", "o", "g">>,               \* (Log
      <<")", "A">>,                         \* )A
      <<")", "L", "o", "g">>,               \* )Log
      <<")", "A", "B">>,                    \* )AB
      <<"b", "=", "2">>,                    \* b=2
      <<" ", "a", " ", "=", " ", "1">>,     \*  a = 1
      <<"a", "=", "3">>,                    \* a=3
      <<"x">>,                              \* x
      <<"a", "=", "=">>,                    \* a==
      <<>> }                                \* the empty line

(***************************************************************************)
(* String helpers.                                                         *)
(***************************************************************************)
Last(s) == s[Len(s)]

Front(s) == SubSeq(s, 1, Len(s) - 1)

RECURSIVE lstrip(_)
lstrip(s) ==
    IF s # <<>> /\ Head(s) \in Whitespace THEN lstrip(Tail(s)) ELSE s

RECURSIVE rstrip(_)
rstrip(s) ==
    IF s # <<>> /\ Last(s) \in Whitespace THEN rstrip(Front(s)) ELSE s

\* A mutant of strip: nothing is trimmed.
strip_none(s) == s

\* str.strip()
strip(s) == rstrip(lstrip(s))

\* re.split('=', line): the pieces between the '=' characters.
RECURSIVE re_split(_)
re_split(s) ==
    IF \A i \in 1..Len(s) : s[i] # "="
    THEN <<s>>
    ELSE LET i == CHOOSE j \in 1..Len(s) :
                      s[j] = "=" /\ \A k \in 1..(j - 1) : s[k] # "="
         IN  <<SubSeq(s, 1, i - 1)>> \o re_split(SubSeq(s, i + 1, Len(s)))

\* str.splitlines(), for a text whose only line boundary is "\n".
RECURSIVE splitlines(_)
splitlines(t) ==
    IF t = <<>>
    THEN <<>>
    ELSE IF \A i \in 1..Len(t) : t[i] # NL
         THEN <<t>>
         ELSE LET i == CHOOSE j \in 1..Len(t) :
                           t[j] = NL /\ \A k \in 1..(j - 1) : t[k] # NL
              IN  <<SubSeq(t, 1, i - 1)>> \o splitlines(SubSeq(t, i + 1, Len(t)))

\* The longest prefix of s made of \w characters.
RECURSIVE WordPrefix(_)
WordPrefix(s) ==
    IF s # <<>> /\ Head(s) \in WordChars
    THEN <<Head(s)>> \o WordPrefix(Tail(s))
    ELSE <<>>

(***************************************************************************)
(* Story.__init__ and the dict operations.                                 *)
(***************************************************************************)
NewStory(kind) ==
    [kind |-> kind, story_lines |-> <<>>, story_vals |-> <<>>,
     story_subobjects |-> <<>>]

Keys(d) == {d[i][1] : i \in 1..Len(d)}

\* A mutant of dict assignment: the first value of a key is kept.
DictSetFirstWins(d, k, v) ==
    IF k \in Keys(d) THEN d ELSE Append(d, <<k, v>>)

\* d[k] = v: a new key is added last, a known key keeps its place.
DictSet(d, k, v) ==
    IF k \in Keys(d)
    THEN [i \in 1..Len(d) |-> IF d[i][1] = k THEN <<k, v>> ELSE d[i]]
    ELSE Append(d, <<k, v>>)

(***************************************************************************)
(* Story.__str__                                                           *)
(***************************************************************************)
\* a < b for Python strings: by code point, a proper prefix first.
RECURSIVE StrLess(_, _)
StrLess(a, b) ==
    IF b = <<>> THEN FALSE
    ELSE IF a = <<>> THEN TRUE
    ELSE IF Head(a) # Head(b) THEN ord(Head(a)) < ord(Head(b))
    ELSE StrLess(Tail(a), Tail(b))

\* p < q for (key, value) tuples.
ItemLess(p, q) ==
    StrLess(p[1], q[1]) \/ (p[1] = q[1] /\ StrLess(p[2], q[2]))

\* Put item p in its place in the ascending sequence s.
RECURSIVE Insert(_, _)
Insert(p, s) ==
    IF s = <<>> THEN <<p>>
    ELSE IF ItemLess(p, Head(s)) THEN <<p>> \o s
    ELSE <<Head(s)>> \o Insert(p, Tail(s))

\* A mutant of sorted: the items in insertion order.
sorted_not(d) == d

\* sorted(self.story_vals.items())
RECURSIVE sorted(_)
sorted(d) ==
    IF d = <<>> THEN <<>> ELSE Insert(Head(d), sorted(Tail(d)))

\* "%s\n" % line, for every line
RECURSIVE StrLines(_)
StrLines(ls) ==
    IF ls = <<>> THEN <<>>
    ELSE Head(ls) \o <<NL>> \o StrLines(Tail(ls))

\* A mutant of the attribute format: the value where the key belongs.
StrValSwapped(p) == <<" ", " ">> \o p[2] \o <<" ", "=", " ">> \o p[1] \o <<NL>>

\* "  %s = %s\n" % (key, val)
StrVal(p) == <<" ", " ">> \o p[1] \o <<" ", "=", " ">> \o p[2] \o <<NL>>

RECURSIVE StrVals(_)
StrVals(items) ==
    IF items = <<>> THEN <<>>
    ELSE StrVal(Head(items)) \o StrVals(Tail(items))

\* A mutant of __str__: the children before the attributes.
RECURSIVE __str__subobjects_first(_)
__str__subobjects_first(story) ==
    LET RECURSIVE Subs(_)
        Subs(ss) == IF ss = <<>> THEN <<>>
                    ELSE __str__subobjects_first(Head(ss)) \o Subs(Tail(ss))
    IN  <<"(">> \o story.kind \o <<NL>>
        \o StrLines(story.story_lines)
        \o Subs(story.story_subobjects)
        \o StrVals(sorted(story.story_vals))
        \o <<")">> \o story.kind \o <<NL>>

\* str(story): the text of a story in starlab's format.
RECURSIVE __str__(_)
__str__(story) ==
    LET RECURSIVE Subs(_)
        Subs(ss) == IF ss = <<>> THEN <<>>
                    ELSE __str__(Head(ss)) \o Subs(Tail(ss))
    IN  <<"(">> \o story.kind \o <<NL>>
        \o StrLines(story.story_lines)
        \o StrVals(sorted(story.story_vals))
        \o Subs(story.story_subobjects)
        \o <<")">> \o story.kind \o <<NL>>

(***************************************************************************)
(* Story.from_buf: one pass of its loop over the lines, and its end.       *)
(***************************************************************************)
\* A variant that takes a line holding "=" for content.
storystart_no_equals(line) ==
    /\ Len(line) >= 2 /\ line[1] = "(" /\ line[2] \in WordChars
    /\ \A i \in 1..Len(line) : line[i] # "="

\* re.match(r"^\((\w+)", line) matches.
storystart(line) ==
    Len(line) >= 2 /\ line[1] = "(" /\ line[2] \in WordChars

\* storystart.group(1)
storystart_group1(line) == WordPrefix(Tail(line))

\* re.match(r"\)%s" % kind, line) matches: the line begins with ")" and the
\* kind.  The pattern is not anchored at its end.
storyend(kind, line) ==
    Len(line) >= 1 + Len(kind) /\ line[1] = ")"
    /\ SubSeq(line, 2, 1 + Len(kind)) = kind

\* A mutant of the attribute test: Log stories take attributes too.
IsAttributeInLog(chunks, kind) == Len(chunks) = 2

\* A mutant of the attribute test: a line with two or more "=" is an attribute.
IsAttributeTwoOrMore(chunks, kind) == Len(chunks) >= 2 /\ kind # Log

\* (len(chunks) == 2) and story_stack[-1].kind != "Log"
IsAttribute(chunks, kind) == Len(chunks) = 2 /\ kind # Log

\* The else branch of the loop: the line is content of the story.
AddContent(story, line) ==
    LET chunks == re_split(line)
    IN  IF IsAttribute(chunks, story.kind)
        THEN [story EXCEPT !.story_vals =
                  DictSet(@, strip(chunks[1]), strip(chunks[2]))]
        ELSE [story EXCEPT !.story_lines = Append(@, line)]

\* A mutant of the storyend branch: the story becomes the first child.
CloseStoryFirst(st) ==
    LET thestory == Last(st.stack)
        rest     == Front(st.stack)
    IN  IF Len(rest) > 0
        THEN [st EXCEPT !.stack =
                 [rest EXCEPT ![Len(rest)].story_subobjects = <<thestory>> \o @]]
        ELSE [st EXCEPT !.stack = rest, !.ret = Append(@, thestory)]

\* The storyend branch: pop the story; hand it to its parent or to the result.
CloseStory(st) ==
    LET thestory == Last(st.stack)
        rest     == Front(st.stack)
    IN  IF Len(rest) > 0
        THEN [st EXCEPT !.stack =
                 [rest EXCEPT ![Len(rest)].story_subobjects = Append(@, thestory)]]
        ELSE [st EXCEPT !.stack = rest, !.ret = Append(@, thestory)]

\* The state of from_buf before its loop.
ParserInit == [stack |-> <<>>, ret |-> <<>>, err |-> "none"]

\* A variant of the body of the loop in which a story below a Log story
\* keeps every content line raw, as the Log story does.
ParseLineInherited(st, line) ==
    IF storystart(line)
    THEN [st EXCEPT !.stack = Append(@, NewStory(storystart_group1(line)))]
    ELSE IF st.stack = <<>>
         THEN [st EXCEPT !.err = "IndexError"]
         ELSE IF storyend(Last(st.stack).kind, line)
              THEN CloseStory(st)
              ELSE IF \E i \in 1..Len(st.stack) : st.stack[i].kind = Log
                   THEN [st EXCEPT !.stack[Len(st.stack)].story_lines =
                                       Append(@, line)]
                   ELSE [st EXCEPT !.stack[Len(st.stack)] = AddContent(@, line)]

\* The body of the loop for one line.  story_stack[-1] on an empty stack
\* raises IndexError.
ParseLine(st, line) ==
    IF storystart(line)
    THEN [st EXCEPT !.stack = Append(@, NewStory(storystart_group1(line)))]
    ELSE IF st.stack = <<>>
         THEN [st EXCEPT !.err = "IndexError"]
         ELSE IF storyend(Last(st.stack).kind, line)
              THEN CloseStory(st)
              ELSE [st EXCEPT !.stack[Len(st.stack)] = AddContent(@, line)]

\* The loop: an exception ends it.
RECURSIVE ParseLines(_, _)
ParseLines(st, lines) ==
    IF lines = <<>> \/ st.err # "none"
    THEN st
    ELSE ParseLines(ParseLine(st, Head(lines)), Tail(lines))

\* A mutant of the end of from_buf: of several stories, the last is returned.
FinishLastOnly(st) ==
    IF st.err # "none" THEN [status |-> st.err, value |-> <<>>]
    ELSE IF Len(st.ret) = 0 THEN [status |-> "ValueError", value |-> <<>>]
    ELSE [status |-> "Story", value |-> Last(st.ret)]

\* After the loop: raise ValueError, return the story, or return the list.
Finish(st) ==
    IF st.err # "none" THEN [status |-> st.err, value |-> <<>>]
    ELSE IF Len(st.ret) = 0 THEN [status |-> "ValueError", value |-> <<>>]
    ELSE IF Len(st.ret) = 1 THEN [status |-> "Story", value |-> st.ret[1]]
    ELSE [status |-> "list", value |-> st.ret]

from_buf(buffered_result) == Finish(ParseLines(ParserInit, buffered_result))

\* Story.from_string, for a str: from_buf on the lines of the string.
from_string(result_string) == from_buf(splitlines(result_string))

(***************************************************************************)
(* What a caller holds.                                                    *)
(***************************************************************************)
\* The stories of a result: the one story, or the items of the list.
Returned(out) ==
    IF out.status = "Story" THEN {out.value}
    ELSE IF out.status = "list" THEN {out.value[i] : i \in 1..Len(out.value)}
    ELSE {}

\* A story and every story below it.
RECURSIVE Descendants(_)
Descendants(story) ==
    {story} \cup UNION {Descendants(story.story_subobjects[i]) :
                            i \in 1..Len(story.story_subobjects)}

NoStory == NewStory(<<>>)

NoOutcome == [status |-> "none", value |-> <<>>]

(***************************************************************************)
(* The program: a caller feeds from_buf line by line, then serializes a    *)
(* story of the result, parses the text again and serializes that.         *)
(***************************************************************************)
\* No file is open.
NoFile == [open |-> FALSE, data |-> <<>>, pos |-> 0]

\* No process has been spawned.
NoProcess == [alive |-> FALSE, command |-> "", stdin |-> <<>>, stdout |-> <<>>,
              returncode |-> 0]

\* No pipeline is run.
PipeIdle ==
    /\ given = <<>>
    /\ command_list = <<>>
    /\ ppc = "idle"
    /\ stage = 0
    /\ current_story = NoOutcome
    /\ self = NoStory
    /\ f = NoFile
    /\ process = NoProcess
    /\ story_lines = <<>>
    /\ result = NoOutcome
    /\ spawned = <<>>
    /\ exits = <<>>
    /\ command = ""
    /\ stage_results = <<>>

\* from_buf is called on a buffer of lines.
CodecInit ==
    /\ buf = <<>>
    /\ story_stack = <<>>
    /\ stories_to_return = <<>>
    /\ pc = "reading"
    /\ outcome = NoOutcome
    /\ node = NoStory
    /\ text = <<>>
    /\ reparsed = NoOutcome
    /\ text2 = <<>>

\* No command object is being constructed.
CmdIdle ==
    /\ kwargs = <<>>
    /\ options = <<>>
    /\ name = ""
    /\ option = 0
    /\ cpc = "idle"

\* No concurrent calls are made.
RunIdle ==
    /\ shared = NoStory
    /\ runs = <<>>

\* from_buf is not run on objects.
HeapIdle ==
    /\ lines_read = <<>>
    /\ objects = <<>>
    /\ stack_refs = <<>>
    /\ return_refs = <<>>
    /\ hpc = "idle"

Init == CodecInit /\ PipeIdle /\ CmdIdle /\ RunIdle /\ HeapIdle

\* One pass of from_buf's loop, on any next line.
ReadLine ==
    /\ pc = "reading"
    /\ Len(buf) < MaxLines
    /\ \E line \in InputLines :
          LET st == ParseLine([stack |-> story_stack, ret |-> stories_to_return,
                               err |-> "none"], line)
          IN  /\ buf' = Append(buf, line)
              /\ story_stack' = st.stack
              /\ stories_to_return' = st.ret
              /\ pc' = IF st.err = "none" THEN "reading" ELSE "raised"
              /\ outcome' = IF st.err = "none" THEN outcome ELSE Finish(st)
    /\ UNCHANGED <<node, text, reparsed, text2>>
    /\ UNCHANGED <<pipeVars, cmdVars, runVars, heapVars>>

\* The buffer is exhausted: from_buf returns or raises.
EndOfInput ==
    /\ pc = "reading"
    /\ outcome' = Finish([stack |-> story_stack, ret |-> stories_to_return,
                          err |-> "none"])
    /\ pc' = IF outcome'.status \in {"Story", "list"} THEN "returned" ELSE "raised"
    /\ UNCHANGED <<buf, story_stack, stories_to_return, node, text, reparsed, text2>>
    /\ UNCHANGED <<pipeVars, cmdVars, runVars, heapVars>>

\* str(story), for a story of the result or one below it.
Serialize ==
    /\ pc = "returned"
    /\ \E top \in Returned(outcome) : \E n \in Descendants(top) :
          /\ node' = n
          /\ text' = __str__(n)
    /\ pc' = "serialized"
    /\ UNCHANGED <<buf, story_stack, stories_to_return, outcome, reparsed, text2>>
    /\ UNCHANGED <<pipeVars, cmdVars, runVars, heapVars>>

\* Story.from_string(text)
Reparse ==
    /\ pc = "serialized"
    /\ reparsed' = from_string(text)
    /\ pc' = "reparsed"
    /\ UNCHANGED <<buf, story_stack, stories_to_return, outcome, node, text, text2>>
    /\ UNCHANGED <<pipeVars, cmdVars, runVars, heapVars>>

\* str() of the story parsed from the text.
Reserialize ==
    /\ pc = "reparsed"
    /\ reparsed.status = "Story"
    /\ text2' = __str__(reparsed.value)
    /\ pc' = "reserialized"
    /\ UNCHANGED <<buf, story_stack, stories_to_return, outcome, node, text, reparsed>>
    /\ UNCHANGED <<pipeVars, cmdVars, runVars, heapVars>>

Next == ReadLine \/ EndOfInput \/ Serialize \/ Reparse \/ Reserialize

Spec == Init /\ [][Next]_vars

(***************************************************************************)
(* The external commands.  A command is a program outside the repository;  *)
(* what it writes depends on its name and on what it reads, and on nothing *)
(* else.  makeking and mksnaps read nothing; makemass and kira transform   *)
(* the story they read; badexit ends with status 1, after a whole story    *)
(* when it reads nothing and after the beginning of one when it reads a    *)
(* story; hang writes nothing, keeps its stdout open and never exits.      *)
(***************************************************************************)
Commands == {"makeking", "mksnaps", "makemass", "kira", "badexit", "hang"}

CommandLists == UNION {[1..n -> Commands] : n \in 1..MaxStages}

\* (A / (Log / x and a blank / )Log /  a = 1 / )A
KingText ==
    <<"(", "A", NL,  "(", "L", "o", "g", NL,  "x", " ", NL,
      ")", "L", "o", "g", NL,  " ", "a", " ", "=", " ", "1", NL,
      ")", "A", NL>>

\* The text t with one more line before its last line.
WithLine(t, line) ==
    LET ls == splitlines(t)
    IN  StrLines(Front(ls)) \o line \o <<NL>> \o Last(ls) \o <<NL>>

\* What the command writes to its stdout when it reads the text on its stdin.
ProcessOutput(cmd, stdin) ==
    CASE cmd = "makeking" -> KingText
      [] cmd = "badexit"  ->
            IF stdin = <<>> THEN KingText ELSE <<"(", "A", NL, "x", NL>>
      [] cmd = "hang"     -> <<>>
      [] cmd = "mksnaps"  -> KingText \o <<"(", "A", NL, ")", "A", NL>>
      [] cmd = "makemass" ->
            IF stdin = <<>> THEN <<>> ELSE WithLine(stdin, <<"b", "=", "2">>)
      [] cmd = "kira"     ->
            IF stdin = <<>> THEN <<>>
            ELSE stdin \o WithLine(stdin, <<"a", "=", "3">>)

\* The exit status of the command.
ReturnCode(cmd) == IF cmd = "badexit" THEN 1 ELSE 0

\* The command never closes its stdout and never exits.
Hangs(cmd) == cmd = "hang"

(***************************************************************************)
(* Story.from_single_command, Story.apply_command and                      *)
(* Story.from_command_list, as functions of their arguments.               *)
(***************************************************************************)
\* The next line of a stream, with its newline, and what follows it.
FirstLine(t) ==
    IF \A i \in 1..Len(t) : t[i] # NL
    THEN t
    ELSE SubSeq(t, 1, CHOOSE j \in 1..Len(t) :
                          t[j] = NL /\ \A k \in 1..(j - 1) : t[k] # NL)

AfterFirstLine(t) == SubSeq(t, Len(FirstLine(t)) + 1, Len(t))

\* for line in process.stdout: story_lines.append(line.rstrip())
RECURSIVE ReadAll(_)
ReadAll(t) ==
    IF t = <<>> THEN <<>>
    ELSE <<rstrip(FirstLine(t))>> \o ReadAll(AfterFirstLine(t))

\* A mutant of the end of "with tempfile() as f": the file stays open.
close_none(file) == file

\* The end of "with tempfile() as f": the file is closed, and with it deleted.
close(file) == NoFile

\* The end of "with Popen(...) as process": the pipe is closed and the
\* process is waited for.
wait(p) == [p EXCEPT !.alive = FALSE]

\* A mutant of f.seek(0): the file is left at its end.
seek_none(file) == file

\* f.seek(0)
seek0(file) == [file EXCEPT !.pos = 0]

\* f.write(data) on the new temporary file.
write(file, data) == [open |-> TRUE, data |-> data, pos |-> Len(data)]

\* What a process reads from the file given as its stdin: from the position
\* of the file to its end.
ReadFrom(file) == SubSeq(file.data, file.pos + 1, Len(file.data))

\* A mutant of the list case of apply_command: the list is returned as parsed.
WithInitialNever(story, thestory) == thestory

\* A mutant of the list case of apply_command: a story is wrapped too.
WithInitialAlways(story, thestory) ==
    IF thestory.status = "list"
    THEN [thestory EXCEPT !.value = <<story>> \o @]
    ELSE IF thestory.status = "Story"
         THEN [status |-> "list", value |-> <<story, thestory.value>>]
         ELSE thestory

\* if isinstance(thestory, list): thestory.insert(0, self)
WithInitial(story, thestory) ==
    IF thestory.status = "list"
    THEN [thestory EXCEPT !.value = <<story>> \o @]
    ELSE thestory

from_single_command(cmd) ==
    from_buf(ReadAll(ProcessOutput(cmd, <<>>)))

\* The command reads str(story), the story it is applied to.
apply_command(story, cmd) ==
    WithInitial(story, from_buf(ReadAll(ProcessOutput(cmd, __str__(story)))))

AttributeError == [status |-> "AttributeError", value |-> <<>>]

\* A mutant of the call current_story.apply_command: on a list, the command
\* is applied to the last story of the list.
ReceiverLast(current) ==
    IF current.status = "list"
    THEN [status |-> "Story", value |-> Last(current.value)]
    ELSE current

\* current_story.apply_command: a Story has the method; a list has not, and
\* the attribute lookup raises AttributeError.
Receiver(current) ==
    IF current.status = "Story" THEN current ELSE AttributeError

\* from_single_command(c0).apply_command(c1)...apply_command(cn), written by
\* hand: an exception ends the chain.
RECURSIVE Chained(_, _)
Chained(current, cmds) ==
    IF cmds = <<>> \/ current.status \notin {"Story", "list"}
    THEN current
    ELSE IF current.status = "list"
         THEN AttributeError
         ELSE Chained(apply_command(current.value, Head(cmds)), Tail(cmds))

\* A mutant of command_list.pop(0): the list keeps its first command.
pop0_none(list) == list

\* What command_list.pop(0) leaves in the list.
pop0(list) == Tail(list)

(***************************************************************************)
(* Story.from_command_list, step by step.                                  *)
(***************************************************************************)
PipeInit ==
    /\ CodecInit
    /\ CmdIdle
    /\ RunIdle
    /\ HeapIdle
    /\ given \in CommandLists
    /\ command_list = given
    /\ ppc = "begin"
    /\ stage = 0
    /\ current_story = NoOutcome
    /\ self = NoStory
    /\ f = NoFile
    /\ process = NoProcess
    /\ story_lines = <<>>
    /\ result = NoOutcome
    /\ spawned = <<>>
    /\ exits = <<>>
    /\ command = ""
    /\ stage_results = <<>>

\* from_single_command(command_list.pop(0)) is called.
CallFirst ==
    /\ ppc = "begin"
    /\ command' = command_list[1]
    /\ command_list' = pop0(command_list)
    /\ stage' = 1
    /\ story_lines' = <<>>
    /\ ppc' = "spawn"
    /\ UNCHANGED <<given, current_story, self, f, process, result, spawned, exits,
                   stage_results>>
    /\ UNCHANGED <<codecVars, cmdVars, runVars, heapVars>>

\* apply_command: str(self) is written to the temporary file, which is rewound.
WriteInput ==
    /\ ppc = "write"
    /\ f' = seek0(write(f, __str__(self)))
    /\ ppc' = "spawn"
    /\ UNCHANGED <<given, command_list, stage, current_story, self, process,
                   story_lines, result, spawned, exits, command, stage_results>>
    /\ UNCHANGED <<codecVars, cmdVars, runVars, heapVars>>

\* Popen(command, ...): the process starts, reading the file when there is one.
Spawn ==
    /\ ppc = "spawn"
    /\ LET stdin == IF f.open THEN ReadFrom(f) ELSE <<>>
       IN  /\ process' = [alive |-> TRUE, command |-> command, stdin |-> stdin,
                          stdout |-> ProcessOutput(command, stdin),
                          returncode |-> ReturnCode(command)]
           /\ spawned' = Append(spawned,
                             [command |-> command, stdin |-> stdin,
                              parsed |-> Len(stage_results), ended |-> Len(exits)])
    /\ ppc' = "running"
    /\ UNCHANGED <<given, command_list, stage, current_story, self, f, story_lines,
                   result, exits, command, stage_results>>
    /\ UNCHANGED <<codecVars, cmdVars, runVars, heapVars>>

\* A variant of the loop that appends to self.story_lines, the attribute of
\* the story the command is applied to, and not to the local list.
ReadStdoutIntoSelf ==
    /\ ppc = "running"
    /\ process.stdout # <<>>
    /\ story_lines' = Append(story_lines, rstrip(FirstLine(process.stdout)))
    /\ self' = IF stage >= 2
               THEN [self EXCEPT !.story_lines =
                                     Append(@, rstrip(FirstLine(process.stdout)))]
               ELSE self
    /\ process' = [process EXCEPT !.stdout = AfterFirstLine(@)]
    /\ UNCHANGED <<given, command_list, ppc, stage, current_story, f, result,
                   spawned, exits, command, stage_results>>
    /\ UNCHANGED <<codecVars, cmdVars, runVars, heapVars>>

\* One pass of "for line in process.stdout".
ReadStdout ==
    /\ ppc = "running"
    /\ process.stdout # <<>>
    /\ story_lines' = Append(story_lines, rstrip(FirstLine(process.stdout)))
    /\ process' = [process EXCEPT !.stdout = AfterFirstLine(@)]
    /\ UNCHANGED <<given, command_list, ppc, stage, current_story, self, f, result,
                   spawned, exits, command, stage_results>>
    /\ UNCHANGED <<codecVars, cmdVars, runVars, heapVars>>

\* The stdout of the process is at its end: the with blocks are left, the
\* process is waited for and the temporary file is closed.  The read of a
\* stdout that is never closed blocks, and the loop is never left.
EndProcess ==
    /\ ppc = "running"
    /\ process.stdout = <<>>
    /\ ~Hangs(process.command)
    /\ process' = wait(process)
    /\ exits' = Append(exits, process.returncode)
    /\ f' = close(f)
    /\ ppc' = "parse"
    /\ UNCHANGED <<given, command_list, stage, current_story, self, story_lines,
                   result, spawned, command, stage_results>>
    /\ UNCHANGED <<codecVars, cmdVars, runVars, heapVars>>

\* from_buf(story_lines), and for apply_command the list case; the stage
\* returns to from_command_list or its exception ends the run.
ParseStage ==
    /\ ppc = "parse"
    /\ LET parsed   == from_buf(story_lines)
           thestory == IF stage = 1 THEN parsed ELSE WithInitial(self, parsed)
       IN  /\ stage_results' = Append(stage_results, thestory)
           /\ IF thestory.status \in {"Story", "list"}
              THEN /\ current_story' = thestory
                   /\ ppc' = "next"
                   /\ UNCHANGED result
              ELSE /\ result' = thestory
                   /\ ppc' = "raised"
                   /\ UNCHANGED current_story
    /\ UNCHANGED <<given, command_list, stage, self, f, process, story_lines,
                   spawned, exits, command>>
    /\ UNCHANGED <<codecVars, cmdVars, runVars, heapVars>>

\* for command in command_list: current_story.apply_command(command), or the
\* end of the loop and the return.
NextStage ==
    /\ ppc = "next"
    /\ IF stage <= Len(command_list)
       THEN LET receiver == Receiver(current_story)
            IN  IF receiver.status = "Story"
                THEN /\ self' = receiver.value
                     /\ command' = command_list[stage]
                     /\ stage' = stage + 1
                     /\ story_lines' = <<>>
                     /\ ppc' = "write"
                     /\ UNCHANGED result
                ELSE /\ result' = receiver
                     /\ ppc' = "raised"
                     /\ UNCHANGED <<self, command, stage, story_lines>>
       ELSE /\ result' = current_story
            /\ ppc' = "returned"
            /\ UNCHANGED <<self, command, stage, story_lines>>
    /\ UNCHANGED <<given, command_list, current_story, f, process, spawned, exits,
                   stage_results>>
    /\ UNCHANGED <<codecVars, cmdVars, runVars, heapVars>>

PipeNext ==
    CallFirst \/ WriteInput \/ Spawn \/ ReadStdout \/ EndProcess \/ ParseStage
    \/ NextStage

PipeSpec == PipeInit /\ [][PipeNext]_vars

\* The run with the interpreter never stopping by itself: a step that can be
\* taken is taken.  A read of a stdout that stays open is no step.
PipeLive == PipeInit /\ [][PipeNext]_vars /\ WF_vars(PipeNext)

(***************************************************************************)
(* Two threads, each chaining apply_command over its own list of commands, *)
(* both starting from one Story object.  A thread is a frame: its locals   *)
(* and where it is.  The threads take their steps in any order.            *)
(***************************************************************************)
MaxRunStages == 2

RunCommands == {"makemass", "kira"}

RunLists == UNION {[1..n -> RunCommands] : n \in 1..MaxRunStages}

Threads == {1, 2}

\* A mutant of story_lines: one list for all the frames, as a module-level
\* list would be.
AppendLineShared(frames, r, line) ==
    [q \in DOMAIN frames |->
        [frames[q] EXCEPT !.story_lines = Append(@, line)]]

\* story_lines.append(line.rstrip()): story_lines is a local of the call.
AppendLine(frames, r, line) ==
    [frames EXCEPT ![r].story_lines = Append(@, line)]

\* The frame of a thread that is about to start on the story.
NewFrame(story, cmds) ==
    [pc |-> "next", given |-> cmds, todo |-> cmds,
     current_story |-> [status |-> "Story", value |-> story],
     self |-> NoStory, command |-> "", f |-> NoFile, process |-> NoProcess,
     story_lines |-> <<>>, result |-> NoOutcome]

ConcInit ==
    /\ CodecInit
    /\ PipeIdle
    /\ CmdIdle
    /\ HeapIdle
    /\ shared = from_single_command("makeking").value
    /\ runs \in {[r \in Threads |-> NewFrame(shared, l[r])] :
                     l \in [Threads -> RunLists]}

\* current_story = current_story.apply_command(command) is called, or the
\* loop is over.
RunCall(r) ==
    /\ runs[r].pc = "next"
    /\ LET fr == runs[r]
           receiver == Receiver(fr.current_story)
       IN  runs' = [runs EXCEPT ![r] =
              IF fr.todo = <<>>
              THEN [fr EXCEPT !.pc = "returned", !.result = fr.current_story]
              ELSE IF receiver.status # "Story"
                   THEN [fr EXCEPT !.pc = "raised", !.result = receiver]
                   ELSE [fr EXCEPT !.pc = "write", !.self = receiver.value,
                                   !.command = Head(fr.todo),
                                   !.todo = Tail(fr.todo),
                                   !.story_lines = <<>>]]
    /\ UNCHANGED <<shared, codecVars, pipeVars, cmdVars, heapVars>>

RunWrite(r) ==
    /\ runs[r].pc = "write"
    /\ runs' = [runs EXCEPT ![r].f = seek0(write(@, __str__(runs[r].self))),
                            ![r].pc = "spawn"]
    /\ UNCHANGED <<shared, codecVars, pipeVars, cmdVars, heapVars>>

RunSpawn(r) ==
    /\ runs[r].pc = "spawn"
    /\ LET stdin == ReadFrom(runs[r].f)
       IN  runs' = [runs EXCEPT
              ![r].process = [alive |-> TRUE, command |-> runs[r].command,
                              stdin |-> stdin,
                              stdout |-> ProcessOutput(runs[r].command, stdin),
                              returncode |-> ReturnCode(runs[r].command)],
              ![r].pc = "running"]
    /\ UNCHANGED <<shared, codecVars, pipeVars, cmdVars, heapVars>>

RunRead(r) ==
    /\ runs[r].pc = "running"
    /\ runs[r].process.stdout # <<>>
    /\ runs' = [AppendLine(runs, r, rstrip(FirstLine(runs[r].process.stdout)))
                    EXCEPT ![r].process.stdout = AfterFirstLine(@)]
    /\ UNCHANGED <<shared, codecVars, pipeVars, cmdVars, heapVars>>

RunEnd(r) ==
    /\ runs[r].pc = "running"
    /\ runs[r].process.stdout = <<>>
    /\ ~Hangs(runs[r].command)
    /\ runs' = [runs EXCEPT ![r].process = wait(@), ![r].f = close(@),
                            ![r].pc = "parse"]
    /\ UNCHANGED <<shared, codecVars, pipeVars, cmdVars, heapVars>>

RunParse(r) ==
    /\ runs[r].pc = "parse"
    /\ LET thestory == WithInitial(runs[r].self, from_buf(runs[r].story_lines))
       IN  runs' = [runs EXCEPT ![r] =
              IF thestory.status \in {"Story", "list"}
              THEN [@ EXCEPT !.pc = "next", !.current_story = thestory]
              ELSE [@ EXCEPT !.pc = "raised", !.result = thestory]]
    /\ UNCHANGED <<shared, codecVars, pipeVars, cmdVars, heapVars>>

ConcNext ==
    \E r \in Threads :
        RunCall(r) \/ RunWrite(r) \/ RunSpawn(r) \/ RunRead(r) \/ RunEnd(r)
        \/ RunParse(r)

ConcSpec == ConcInit /\ [][ConcNext]_vars

(***************************************************************************)
(* Story.from_buf on objects.  Python holds a Story by reference: the      *)
(* stack, the children lists and the result hold references to objects     *)
(* that are changed in place.  An object is its number in objects, the     *)
(* order of creation; its story_subobjects holds the numbers of its        *)
(* children.                                                               *)
(***************************************************************************)
HeapLines ==
    { <<"(", "A">>,                         \* (A
      <<"(", "L", "o", "g">>,               \* (Log
      <<"(", "A", "=", "1">>,               \* (A=1
      <<")", "A">>,                         \* )A
      <<")", "L", "o", "g">>,               \* )Log
      <<"a", "=", "3">>,                    \* a=3
      <<"x">> }                             \* x

\* thestory = cls(); thestory.kind = storystart.group(1);
\* story_stack.append(thestory)
HeapOpen(h, line) ==
    [h EXCEPT !.objects = Append(@, NewStory(storystart_group1(line))),
              !.stack = Append(@, Len(h.objects) + 1)]

\* A mutant of the storyend branch: the story popped goes to the result
\* also when it has gone to a parent.
HeapCloseBoth(h) ==
    LET thestory == Last(h.stack)
        rest     == Front(h.stack)
    IN  IF Len(rest) > 0
        THEN [h EXCEPT !.stack = rest,
                       !.objects[Last(rest)].story_subobjects = Append(@, thestory),
                       !.ret = Append(@, thestory)]
        ELSE [h EXCEPT !.stack = rest, !.ret = Append(@, thestory)]

\* thestory = story_stack.pop(), appended to story_stack[-1].story_subobjects
\* or to stories_to_return.
HeapClose(h) ==
    LET thestory == Last(h.stack)
        rest     == Front(h.stack)
    IN  IF Len(rest) > 0
        THEN [h EXCEPT !.stack = rest,
                       !.objects[Last(rest)].story_subobjects = Append(@, thestory)]
        ELSE [h EXCEPT !.stack = rest, !.ret = Append(@, thestory)]

\* A mutant of the else branch: the line goes to the last child of the top
\* story when it has one.
HeapContentClosed(h, line) ==
    LET top  == Last(h.stack)
        kids == h.objects[top].story_subobjects
    IN  IF kids # <<>>
        THEN [h EXCEPT !.objects[Last(kids)] = AddContent(@, line)]
        ELSE [h EXCEPT !.objects[top] = AddContent(@, line)]

\* The else branch: story_stack[-1] is changed in place.
HeapContent(h, line) ==
    [h EXCEPT !.objects[Last(h.stack)] = AddContent(@, line)]

\* The body of the loop for one line.
HeapLine(h, line) ==
    IF storystart(line)
    THEN HeapOpen(h, line)
    ELSE IF h.stack = <<>>
         THEN [h EXCEPT !.err = "IndexError"]
         ELSE IF storyend(h.objects[Last(h.stack)].kind, line)
              THEN HeapClose(h)
              ELSE HeapContent(h, line)

HeapInit ==
    /\ CodecInit
    /\ PipeIdle
    /\ CmdIdle
    /\ RunIdle
    /\ lines_read = <<>>
    /\ objects = <<>>
    /\ stack_refs = <<>>
    /\ return_refs = <<>>
    /\ hpc = "reading"

\* One pass of the loop of from_buf, on any next line.
HeapReadLine ==
    /\ hpc = "reading"
    /\ Len(lines_read) < MaxLines
    /\ \E line \in HeapLines :
          LET h == HeapLine([objects |-> objects, stack |-> stack_refs,
                             ret |-> return_refs, err |-> "none"], line)
          IN  /\ lines_read' = Append(lines_read, line)
              /\ objects' = h.objects
              /\ stack_refs' = h.stack
              /\ return_refs' = h.ret
              /\ hpc' = IF h.err = "none" THEN "reading" ELSE h.err
    /\ UNCHANGED <<codecVars, pipeVars, cmdVars, runVars>>

\* The buffer is exhausted: from_buf raises ValueError or returns.
HeapEndOfInput ==
    /\ hpc = "reading"
    /\ hpc' = IF Len(return_refs) = 0 THEN "ValueError" ELSE "returned"
    /\ UNCHANGED <<lines_read, objects, stack_refs, return_refs>>
    /\ UNCHANGED <<codecVars, pipeVars, cmdVars, runVars>>

HeapNext == HeapReadLine \/ HeapEndOfInput

HeapSpec == HeapInit /\ [][HeapNext]_vars

(***************************************************************************)
(* Option, Command and Makeking: the construction of a command object.     *)
(* A Python value is a string: "None", "False", or the text of a number.   *)
(***************************************************************************)
None == "None"

\* The options of Makeking, in the order of the dict literal.
Parameters == <<"b", "i", "n", "s", "u", "w">>

\* What a caller passes for a parameter, when it passes something.
Supplied == {None, "500"}

\* What uuid.uuid4().time_low can be: any 32-bit number, zero too.
SeedValues == {"0", "12345"}

\* Makeking(**kwargs): a value for any of the parameters.
KeywordArguments ==
    UNION {[D -> Supplied] : D \in SUBSET {Parameters[i] : i \in 1..Len(Parameters)}}

\* self.options_dict of Makeking, with the seed that uuid4 gave.
options_dict(seed) ==
    [i \in 1..Len(Parameters) |->
        [parameter   |-> Parameters[i],
         is_required |-> Parameters[i] \in {"n", "s", "w"},
         default_value |->
            CASE Parameters[i] = "b" -> "0"
              [] Parameters[i] \in {"i", "u"} -> "False"
              [] Parameters[i] \in {"n", "w"} -> None
              [] Parameters[i] = "s" -> seed]]

\* Command.parse_options: an Option for every item of options_dict, its
\* value None.
parse_options(dict) ==
    [i \in 1..Len(dict) |->
        [parameter |-> dict[i].parameter, is_required |-> dict[i].is_required,
         default_value |-> dict[i].default_value, value |-> None]]

\* kwargs.get(key, default)
get(kw, key, default) == IF key \in DOMAIN kw THEN kw[key] ELSE default

\* A mutant of the test of parse_args_options: any option without a value
\* is refused.
MustRaiseAny(value, opt) == value = None

\* value is None and option.is_required
MustRaise(value, opt) == value = None /\ opt.is_required

CmdInit ==
    /\ CodecInit
    /\ PipeIdle
    /\ RunIdle
    /\ HeapIdle
    /\ kwargs \in KeywordArguments
    /\ options = <<>>
    /\ name = ""
    /\ option = 0
    /\ cpc = "begin"

\* Makeking.__init__ up to the call of parse_args_options: options_dict is
\* built, Command.__init__ makes the options, the name is set.
Construct ==
    /\ cpc = "begin"
    /\ \E seed \in SeedValues : options' = parse_options(options_dict(seed))
    /\ name' = "makeking"
    /\ option' = 1
    /\ cpc' = "parse_args_options"
    /\ UNCHANGED <<kwargs, codecVars, pipeVars, runVars, heapVars>>

\* One pass of the loop of parse_args_options.
ParseArg ==
    /\ cpc = "parse_args_options"
    /\ option <= Len(options)
    /\ LET value == get(kwargs, options[option].parameter,
                        options[option].default_value)
       IN  IF MustRaise(value, options[option])
           THEN /\ cpc' = "ValueError"
                /\ UNCHANGED <<options, option>>
           ELSE /\ options' = [options EXCEPT ![option].value = value]
                /\ option' = option + 1
                /\ UNCHANGED cpc
    /\ UNCHANGED <<kwargs, name, codecVars, pipeVars, runVars, heapVars>>

\* The loop is over: the constructor returns the command.
Constructed ==
    /\ cpc = "parse_args_options"
    /\ option > Len(options)
    /\ cpc' = "constructed"
    /\ UNCHANGED <<kwargs, options, name, option, codecVars, pipeVars, runVars, heapVars>>

CmdNext == Construct \/ ParseArg \/ Constructed

CmdSpec == CmdInit /\ [][CmdNext]_vars

(***************************************************************************)
(* Helpers of the properties.                                              *)
(***************************************************************************)
Items(d) == {d[i] : i \in 1..Len(d)}

\* Two stories with the same kind, the same lines in order, the same set of
\* attribute items and, pairwise in order, the same children.
RECURSIVE SameStory(_, _)
SameStory(a, b) ==
    /\ a.kind = b.kind
    /\ a.story_lines = b.story_lines
    /\ Len(a.story_vals) = Len(b.story_vals)
    /\ Items(a.story_vals) = Items(b.story_vals)
    /\ Len(a.story_subobjects) = Len(b.story_subobjects)
    /\ \A i \in 1..Len(a.story_subobjects) :
          SameStory(a.story_subobjects[i], b.story_subobjects[i])

\* The loop of from_buf has just read a line: the line is the last of buf'.
ReadStep == pc = "reading" /\ Len(buf') = Len(buf) + 1

\* The line is shaped like a block close: ")" and an identifier.
CloseShaped(line) ==
    Len(line) >= 2 /\ line[1] = ")" /\ line[2] \in WordChars

\* The identifier of a close-shaped line.
CloseIdent(line) == WordPrefix(Tail(line))

\* The line has become content of the story: one more raw line, or an
\* attribute; the kind and the children are as they were.
StoredAsContent(before, after, line) ==
    /\ after.kind = before.kind
    /\ after.story_subobjects = before.story_subobjects
    /\ \/ /\ after.story_lines = Append(before.story_lines, line)
          /\ after.story_vals = before.story_vals
       \/ /\ after.story_lines = before.story_lines
          /\ after.story_vals # before.story_vals

\* The line read is content for the loop of from_buf: it opens no story and
\* does not close the story on top of the stack.
ContentStep ==
    /\ ReadStep
    /\ story_stack # <<>>
    /\ pc' = "reading"
    /\ ~storystart(Last(buf'))
    /\ ~storyend(Last(story_stack).kind, Last(buf'))

\* The positions of "=" in a line.
EqualsAt(line) == {i \in 1..Len(line) : line[i] = "="}

\* Every story of the stack and of the result, with the stories below them.
AllStories ==
    UNION {Descendants(story_stack[i]) : i \in 1..Len(story_stack)}
    \cup UNION {Descendants(stories_to_return[i]) : i \in 1..Len(stories_to_return)}

\* The items of a dict that have the key.
ItemsOf(d, k) == {i \in 1..Len(d) : d[i][1] = k}

\* The text without its first n lines: what follows n newlines.
RECURSIVE DropLines(_, _)
DropLines(t, n) ==
    IF n = 0 \/ t = <<>> THEN t
    ELSE DropLines(Tail(t), IF Head(t) = NL THEN n - 1 ELSE n)

\* The texts of the stories of a sequence, one after the other.
RECURSIVE StrAll(_)
StrAll(ss) ==
    IF ss = <<>> THEN <<>> ELSE __str__(Head(ss)) \o StrAll(Tail(ss))

(***************************************************************************)
(* C1.  Round trip: for every story N of a successful parse, the result or *)
(* any story below it, parsing str(N) gives one story with the same kind,  *)
(* the same lines in order, the same attribute items and the same children *)
(* in order, all the way down.                                             *)
(***************************************************************************)
C1_RoundTrip ==
    pc \in {"reparsed", "reserialized"} =>
        /\ reparsed.status = "Story"
        /\ SameStory(reparsed.value, node)

\* A story whose attributes were parsed out of key order, around a raw line,
\* has made the trip.
C1_Witness ==
    /\ pc = "reparsed"
    /\ Len(node.story_vals) >= 2
    /\ node.story_vals # sorted(node.story_vals)
    /\ node.story_lines # <<>>

(***************************************************************************)
(* C2.  The serialization is a fixed point: for every story N of a         *)
(* successful parse, str(from_string(str(N))) is str(N), character for     *)
(* character; from_buf on the lines of str(N) gives the same.              *)
(***************************************************************************)
C2_FixedPoint ==
    /\ pc = "reserialized" => text2 = text
    /\ pc \in {"reparsed", "reserialized"} =>
          /\ from_buf(splitlines(text)).status = "Story"
          /\ __str__(from_buf(splitlines(text)).value) = text

\* The text parsed first was not in canonical form: its attribute line had
\* other spacing, so the text is not what was read.
C2_Witness ==
    /\ pc = "reserialized"
    /\ Len(node.story_vals) >= 1
    /\ \E i \in 1..Len(buf) : buf[i] = <<" ", "a", " ", "=", " ", "1">>
    /\ splitlines(text) # buf

(***************************************************************************)
(* C3.  Stack discipline: a close-shaped line whose identifier is not the  *)
(* kind of the story on top of the stack is not a close: the stack keeps   *)
(* its stories, nothing is added to the result, and the line becomes       *)
(* content of the top story.                                               *)
(***************************************************************************)
C3_StackDiscipline ==
    [][ ( /\ ReadStep
          /\ story_stack # <<>>
          /\ CloseShaped(Last(buf'))
          /\ CloseIdent(Last(buf')) # Last(story_stack).kind )
        => /\ pc' = "reading"
           /\ Len(story_stack') = Len(story_stack)
           /\ Front(story_stack') = Front(story_stack)
           /\ stories_to_return' = stories_to_return
           /\ StoredAsContent(Last(story_stack), Last(story_stack'), Last(buf'))
      ]_vars

(***************************************************************************)
(* C4.  Unterminated block: when the input ends with a story still open,   *)
(* from_buf fails with an UnterminatedBlock error and returns nothing,     *)
(* whether or not a top-level story was closed before.                     *)
(***************************************************************************)
C4_UnterminatedBlock ==
    (pc # "reading" /\ outcome.status # "IndexError" /\ story_stack # <<>>)
        => outcome.status = "UnterminatedBlock"

(***************************************************************************)
(* C5.  Empty result: when no top-level story was ever closed, from_buf    *)
(* fails with ValueError('No stories found in buffer!') and returns no     *)
(* story.                                                                  *)
(***************************************************************************)
C5_EmptyResult ==
    (pc # "reading" /\ stories_to_return = <<>>)
        => outcome.status = "ValueError"

(***************************************************************************)
(* C6.  Log suppression: every content line read while a story of kind Log *)
(* is on top of the stack, a line with exactly one "=" included, is        *)
(* appended to its lines, and no Log story ever has an attribute.          *)
(***************************************************************************)
C6_LogSuppression ==
    [][ /\ \A story \in AllStories' : story.kind = Log => story.story_vals = <<>>
        /\ (ContentStep /\ Last(story_stack).kind = Log)
              => story_stack' = [story_stack EXCEPT ![Len(story_stack)].story_lines =
                                    Append(@, Last(buf'))]
      ]_vars

\* A Log story on top of the stack holds a line with exactly one "=".
C6_Witness ==
    /\ pc = "reading"
    /\ story_stack # <<>>
    /\ Last(story_stack).kind = Log
    /\ \E i \in 1..Len(Last(story_stack).story_lines) :
          Cardinality(EqualsAt(Last(story_stack).story_lines[i])) = 1

(***************************************************************************)
(* C7.  Content classification: a content line of a story whose kind is    *)
(* not Log becomes an attribute if and only if it holds exactly one "=";   *)
(* the key and the value are the text before and after the "=", trimmed.   *)
(* Any other content line is appended as it is and changes no attribute.   *)
(***************************************************************************)
C7_Classification ==
    [][ (ContentStep /\ Last(story_stack).kind # Log) =>
          LET line   == Last(buf')
              before == Last(story_stack)
              after  == Last(story_stack')
          IN  /\ Front(story_stack') = Front(story_stack)
              /\ after.kind = before.kind
              /\ after.story_subobjects = before.story_subobjects
              /\ IF Cardinality(EqualsAt(line)) = 1
                 THEN LET i == CHOOSE j \in EqualsAt(line) : TRUE
                          k == strip(SubSeq(line, 1, i - 1))
                          v == strip(SubSeq(line, i + 1, Len(line)))
                      IN  /\ after.story_lines = before.story_lines
                          /\ <<k, v>> \in Items(after.story_vals)
                          /\ k # <<>> => Head(k) # " " /\ Last(k) # " "
                          /\ v # <<>> => Head(v) # " " /\ Last(v) # " "
                          /\ \A p \in Items(before.story_vals) :
                                p[1] # k => p \in Items(after.story_vals)
                 ELSE /\ after.story_lines = Append(before.story_lines, line)
                      /\ after.story_vals = before.story_vals
      ]_vars

\* The line " a = 1" has been read into a story that is not a Log: the story
\* has the attribute a with the value 1.
C7_Witness ==
    /\ pc = "reading"
    /\ story_stack # <<>>
    /\ Last(story_stack).kind # Log
    /\ Last(buf) = <<" ", "a", " ", "=", " ", "1">>
    /\ <<<<"a">>, <<"1">>>> \in Items(Last(story_stack).story_vals)

(***************************************************************************)
(* C8.  Last write wins: after an attribute line is read, its story has    *)
(* exactly one item for the line's key, with the line's value; the other   *)
(* items are as they were; no story ever holds two items with one key.     *)
(***************************************************************************)
C8_LastWriteWins ==
    [][ /\ \A story \in AllStories' : \A k \in Keys(story.story_vals) :
              Cardinality(ItemsOf(story.story_vals, k)) = 1
        /\ ( /\ ContentStep
             /\ Last(story_stack).kind # Log
             /\ Cardinality(EqualsAt(Last(buf'))) = 1 ) =>
              LET line   == Last(buf')
                  i      == CHOOSE j \in EqualsAt(line) : TRUE
                  k      == strip(SubSeq(line, 1, i - 1))
                  v      == strip(SubSeq(line, i + 1, Len(line)))
                  before == Last(story_stack).story_vals
                  after  == Last(story_stack').story_vals
              IN  /\ {p \in Items(after) : p[1] = k} = {<<k, v>>}
                  /\ {p \in Items(after) : p[1] # k} = {p \in Items(before) : p[1] # k}
      ]_vars

\* " a = 1" and then "a=3" were read into one story: it has the one item a = 3.
C8_Witness ==
    /\ pc = "reading"
    /\ Len(buf) >= 3
    /\ buf[Len(buf) - 1] = <<" ", "a", " ", "=", " ", "1">>
    /\ buf[Len(buf)] = <<"a", "=", "3">>
    /\ story_stack # <<>>
    /\ Last(story_stack).story_vals = << <<<<"a">>, <<"3">>>> >>

(***************************************************************************)
(* C9.  Attribute ordering: the attribute lines of str(story) come in      *)
(* ascending order of their keys, whatever the order in which the          *)
(* attributes were set.                                                    *)
(***************************************************************************)
C9_AttributeOrdering ==
    pc = "serialized" =>
        LET ls == splitlines(text)
            n  == Len(node.story_lines)
            m  == Len(node.story_vals)
            key(l) == strip(re_split(l)[1])
            val(l) == strip(re_split(l)[2])
        IN  /\ Len(ls) >= 2 + n + m
            /\ {<<key(ls[1 + n + i]), val(ls[1 + n + i])>> : i \in 1..m}
                  = Items(node.story_vals)
            /\ \A i, j \in 1..m :
                  i < j => StrLess(key(ls[1 + n + i]), key(ls[1 + n + j]))

\* The serialized story had b set before a.
C9_Witness ==
    /\ pc = "serialized"
    /\ node.story_vals = << <<<<"b">>, <<"2">>>>, <<<<"a">>, <<"3">>>> >>

C16_ResultShape ==
    [][ /\ ReadStep =>
              IF Len(story_stack) = 1 /\ story_stack' = <<>>
              THEN stories_to_return' = Append(stories_to_return, story_stack[1])
              ELSE stories_to_return' = stories_to_return
        /\ (pc = "reading" /\ pc' = "returned") =>
              IF Len(stories_to_return) = 1
              THEN outcome'.status = "Story" /\ outcome'.value = stories_to_return[1]
              ELSE /\ outcome'.status = "list"
                   /\ Len(outcome'.value) >= 2
                   /\ outcome'.value = stories_to_return
      ]_vars

\* A list of two stories that differ was returned.
C16_Witness ==
    /\ pc = "returned"
    /\ outcome.status = "list"
    /\ Len(outcome.value) = 2
    /\ outcome.value[1] # outcome.value[2]

(***************************************************************************)
(* C17.  from_string on a string that holds more than one top-level story  *)
(* returns one Story, the last of the string.                              *)
(***************************************************************************)
C17_FromStringLast ==
    (pc = "returned" /\ Len(stories_to_return) >= 2) =>
        /\ from_string(StrLines(buf)).status = "Story"
        /\ from_string(StrLines(buf)).value = Last(stories_to_return)

(***************************************************************************)
(* C18.  An unmatched close is harmless: a close-shaped line whose         *)
(* identifier is the kind of no story that is open is not a close and      *)
(* raises nothing, wherever it is read, also when no story is open: the    *)
(* stack and the result keep their stories, and the line becomes content   *)
(* of the top story when there is one.                                     *)
(***************************************************************************)
C18_UnmatchedClose ==
    [][ ( /\ ReadStep
          /\ CloseShaped(Last(buf'))
          /\ \A i \in 1..Len(story_stack) :
                story_stack[i].kind # CloseIdent(Last(buf')) )
        => /\ pc' = "reading"
           /\ Len(story_stack') = Len(story_stack)
           /\ stories_to_return' = stories_to_return
           /\ story_stack # <<>> =>
                 /\ Front(story_stack') = Front(story_stack)
                 /\ StoredAsContent(Last(story_stack), Last(story_stack'), Last(buf'))
      ]_vars

(***************************************************************************)
(* Helpers of the pipeline properties.                                     *)
(***************************************************************************)
\* The run is over: from_command_list has returned or raised.
PipeDone == ppc \in {"returned", "raised"}

\* The stage whose number is `stage` has handed back its result; self and
\* story_lines are still those of that stage.
StageParsed == stage >= 1 /\ Len(stage_results) = stage

(***************************************************************************)
(* C11.  Multi-result prepend: when apply_command runs on the story S and  *)
(* the output of the command parses to the list S1, ..., Sn with n >= 2,   *)
(* it returns the list S, S1, ..., Sn, of length n + 1; S is what the      *)
(* stage before returned.                                                  *)
(***************************************************************************)
C11_MultiResultPrepend ==
    (StageParsed /\ stage >= 2 /\ from_buf(story_lines).status = "list") =>
        LET parsed == from_buf(story_lines).value
            r      == stage_results[stage]
        IN  /\ Len(parsed) >= 2
            /\ r.status = "list"
            /\ Len(r.value) = Len(parsed) + 1
            /\ r.value[1] = self
            /\ self = stage_results[stage - 1].value
            /\ \A i \in 1..Len(parsed) : r.value[i + 1] = parsed[i]
            /\ ppc = "returned" => result = r

\* A run returned three stories: the input of kira and its two snapshots.
C11_Witness ==
    /\ ppc = "returned"
    /\ stage >= 2
    /\ result.status = "list"
    /\ Len(result.value) = 3
    /\ result.value[1] = self
    /\ result.value[2] # result.value[3]

(***************************************************************************)
(* C12.  Single result: when the output of a stage parses to exactly one   *)
(* story, the stage returns that story itself, not a list, and the story   *)
(* the command was applied to is not in the result; when the stage is the  *)
(* last one this is what the pipeline returns.                             *)
(***************************************************************************)
C12_SingleResult ==
    (StageParsed /\ from_buf(story_lines).status = "Story") =>
        /\ stage_results[stage].status = "Story"
        /\ stage_results[stage].value = from_buf(story_lines).value
        /\ ppc = "returned" =>
              /\ result.status = "Story"
              /\ result.value = from_buf(story_lines).value

\* A run of two or more stages returned one story, which is not the story the
\* last command was applied to.
C12_Witness ==
    /\ ppc = "returned"
    /\ stage >= 2
    /\ result.status = "Story"
    /\ result.value # self

C14_InitialExpansion ==
    (Len(stage_results) >= 1 /\ stage_results[1].status = "list") =>
        ppc # "returned"

(***************************************************************************)
(* C15.  Failure of a stage: when the process of a stage ends with a       *)
(* status other than 0 the stage fails, and returns nothing parsed from    *)
(* the output read, even when that output holds complete stories.          *)
(***************************************************************************)
C15_StageFailure ==
    \A k \in 1..Len(stage_results) :
        exits[k] # 0 => stage_results[k].status \notin {"Story", "list"}

(***************************************************************************)
(* C19.  Sequential handoff: the processes are spawned in the order of the *)
(* list, each one only after the process before it has ended and its       *)
(* output has been read to the end and parsed; what a process after the    *)
(* first reads on its stdin is exactly str() of what the stage before      *)
(* returned, in the file before the process starts.                        *)
(***************************************************************************)
C19_SequentialHandoff ==
    /\ \A k \in 1..Len(spawned) :
          /\ k <= Len(given)
          /\ spawned[k].command = given[k]
          /\ spawned[k].parsed = k - 1
          /\ spawned[k].ended = k - 1
          /\ k >= 2 =>
                /\ stage_results[k - 1].status = "Story"
                /\ spawned[k].stdin = __str__(stage_results[k - 1].value)
    /\ Len(exits) <= Len(spawned)
    /\ process.alive => Len(exits) = Len(spawned) - 1
    /\ (ppc = "parse" \/ StageParsed) => process.stdout = <<>> /\ ~process.alive
    /\ (ppc = "spawn" /\ stage >= 2) => f.open /\ f.data = __str__(self)

\* The third process of a run has started, on a text that the second process
\* did not read.
C19_Witness ==
    /\ Len(spawned) = 3
    /\ process.alive
    /\ spawned[3].stdin # <<>>
    /\ spawned[3].stdin # spawned[2].stdin

C21_ScopedResources ==
    /\ ppc \notin {"spawn", "running"} => ~f.open /\ ~process.alive
    /\ ppc # "running" => ~process.alive /\ Len(exits) = Len(spawned)
    /\ PipeDone => f = NoFile

\* An apply_command whose process read the temporary file, ended with status 1
\* and wrote what does not parse: the invocation has raised.
C21_Witness ==
    /\ ppc = "raised"
    /\ stage >= 2
    /\ result.status = "ValueError"
    /\ Len(exits) = stage
    /\ exits[stage] = 1
    /\ spawned[stage].stdin # <<>>

(***************************************************************************)
(* C22.  Deadline: a stage invocation always eventually returns or fails,  *)
(* also when its process never exits and never closes its output: once the *)
(* process runs, the invocation hands back a result or raises.             *)
(***************************************************************************)
C22_Deadline ==
    (ppc = "running") ~> (Len(stage_results) = stage)

(***************************************************************************)
(* C23.  No automatic retry: in one run the process of every stage is      *)
(* spawned at most once and in the order of the list; after a failure of a *)
(* stage (its process ended with a failure status, its output did not      *)
(* parse, or it gave a list before the last stage) no process is spawned   *)
(* any more; a run that returns has spawned exactly one process for every  *)
(* command.                                                                *)
(***************************************************************************)
C23_NoRetry ==
    /\ Len(spawned) <= stage
    /\ stage <= Len(given)
    /\ \A k \in 1..Len(spawned) : spawned[k].command = given[k]
    /\ \A k \in 1..Len(exits) : exits[k] # 0 => Len(spawned) = k
    /\ \A k \in 1..Len(stage_results) :
          \/ stage_results[k].status = "Story"
          \/ stage_results[k].status = "list" /\ k = Len(given)
          \/ Len(spawned) = k
    /\ ppc = "returned" => Len(spawned) = Len(given)

(***************************************************************************)
(* Helpers of C24.                                                         *)
(***************************************************************************)
\* The stories of a result, in order.
ReturnedSeq(out) ==
    IF out.status = "Story" THEN <<out.value>>
    ELSE IF out.status = "list" THEN out.value
    ELSE <<>>

\* How many stories of the kind there are among the stories of a sequence
\* and the stories below them.
RECURSIVE CountKind(_, _)
CountKind(ss, kind) ==
    IF ss = <<>> THEN 0
    ELSE (IF Head(ss).kind = kind THEN 1 ELSE 0)
         + CountKind(Head(ss).story_subobjects, kind)
         + CountKind(Tail(ss), kind)

\* The kinds a line of the input can open.
Kinds == {storystart_group1(line) : line \in {l \in InputLines : storystart(l)}}

\* The lines read that open a story of the kind, and the lines read that
\* are a close marker of exactly the kind.
OpensOf(kind) ==
    {i \in 1..Len(buf) : storystart(buf[i]) /\ storystart_group1(buf[i]) = kind}

ClosesOf(kind) ==
    {i \in 1..Len(buf) : CloseShaped(buf[i]) /\ CloseIdent(buf[i]) = kind}

(***************************************************************************)
(* C24.  All-or-nothing result: when from_buf returns, every story of the  *)
(* result and every story below one has had its matching close marker      *)
(* read, so there are no more returned stories of a kind than close        *)
(* markers of that kind; and a story still open at the end of the input is *)
(* neither returned nor below a returned story: the returned stories and   *)
(* the stories left on the stack, with those below them, are each opened   *)
(* story once.                                                             *)
(***************************************************************************)
C24_AllOrNothing ==
    outcome.status \in {"Story", "list"} =>
        \A kind \in Kinds :
            /\ CountKind(ReturnedSeq(outcome), kind) <= Cardinality(ClosesOf(kind))
            /\ CountKind(ReturnedSeq(outcome), kind) + CountKind(story_stack, kind)
                  = Cardinality(OpensOf(kind))

(***************************************************************************)
(* C25.  The live path is the string path: what a stage builds from the    *)
(* lines it read from the stdout of its process is what Story.from_string  *)
(* gives on the text the process wrote: the same story or list of stories, *)
(* or the same exception.                                                  *)
(***************************************************************************)
C25_LivePathIsStringPath ==
    ppc = "parse" =>
        from_buf(story_lines)
            = from_string(ProcessOutput(process.command, process.stdin))

(***************************************************************************)
(* C26.  Order preservation in parse: a content line that is not stored as *)
(* an attribute becomes the last raw line of the story on top of the       *)
(* stack, as it is, and a content line changes nothing else; a story that  *)
(* is closed inside another becomes the last child of that story, itself   *)
(* unchanged; a line that opens a story changes no story that is open.  So *)
(* the lines and the children of a story are in the order of the input.    *)
(* A content line is a line that opens no story and does not pass the      *)
(* close test of the top story.                                            *)
(***************************************************************************)
C26_OrderPreserved ==
    [][ /\ ContentStep =>
              LET line   == Last(buf')
                  before == Last(story_stack)
                  after  == Last(story_stack')
              IN  /\ Len(story_stack') = Len(story_stack)
                  /\ Front(story_stack') = Front(story_stack)
                  /\ after.story_subobjects = before.story_subobjects
                  /\ \/ /\ after.story_lines = Append(before.story_lines, line)
                        /\ after.story_vals = before.story_vals
                     \/ /\ after.story_lines = before.story_lines
                        /\ Cardinality(EqualsAt(line)) = 1
                        /\ before.kind # Log
        /\ (ReadStep /\ Len(story_stack') < Len(story_stack)) =>
              /\ Len(story_stack') = Len(story_stack) - 1
              /\ Len(story_stack) >= 2 =>
                    LET n == Len(story_stack) - 1
                    IN  /\ SubSeq(story_stack', 1, n - 1) = SubSeq(story_stack, 1, n - 1)
                        /\ story_stack'[n].story_subobjects
                              = Append(story_stack[n].story_subobjects,
                                       Last(story_stack))
                        /\ story_stack'[n].story_lines = story_stack[n].story_lines
                        /\ story_stack'[n].story_vals = story_stack[n].story_vals
        /\ (ReadStep /\ Len(story_stack') > Len(story_stack)) =>
              /\ Front(story_stack') = story_stack
              /\ Last(story_stack').story_lines = <<>>
              /\ Last(story_stack').story_subobjects = <<>>
      ]_vars

\* The open story has two raw lines in the order they were read, and a child
\* closed after them.
C26_Witness ==
    /\ pc = "reading"
    /\ story_stack # <<>>
    /\ Len(buf) = 5
    /\ Last(story_stack).story_lines = <<buf[2], buf[3]>>
    /\ buf[2] # buf[3]
    /\ Len(Last(story_stack).story_subobjects) = 1

(***************************************************************************)
(* C27.  Independent runs do not interfere: of two threads that chain      *)
(* apply_command from one Story object, each over its own commands and     *)
(* with its own temporary file, each ends, in every interleaving of their  *)
(* steps, with what the chain gives when it runs alone; every process      *)
(* reads what its own thread wrote; and the Story they share is never      *)
(* changed.                                                                *)
(***************************************************************************)
C27_NoInterference ==
    [][ /\ shared' = shared
        /\ \A r \in Threads :
              /\ runs'[r].pc \in {"returned", "raised"} =>
                    runs'[r].result
                        = Chained([status |-> "Story", value |-> shared],
                                  runs'[r].given)
              /\ runs'[r].pc = "running" =>
                    runs'[r].process.stdin = __str__(runs'[r].self)
      ]_vars

\* The two threads, on different commands, are both in the middle of reading
\* the output of their processes.
C27_Witness ==
    /\ runs # <<>>
    /\ runs[1].pc = "running" /\ runs[2].pc = "running"
    /\ runs[1].command # runs[2].command
    /\ runs[1].story_lines # <<>> /\ runs[1].process.stdout # <<>>
    /\ runs[2].story_lines # <<>> /\ runs[2].process.stdout # <<>>

(***************************************************************************)
(* Helpers of C28.                                                         *)
(***************************************************************************)
\* The number of the stage at which the chain fails, counting from k, the
\* stage that gave current; 0 when the chain does not fail.
RECURSIVE FailStage(_, _, _)
FailStage(current, cmds, k) ==
    IF current.status \notin {"Story", "list"} THEN k
    ELSE IF cmds = <<>> THEN 0
    ELSE IF current.status = "list" THEN k
    ELSE FailStage(apply_command(current.value, Head(cmds)), Tail(cmds), k + 1)

\* The command lists whose processes all come to an end.
EndingLists == {g \in CommandLists : \A i \in 1..Len(g) : ~Hangs(g[i])}

(***************************************************************************)
(* C28.  Failure context: the failure a run surfaces identifies the stage  *)
(* that failed: no other run surfaces the same failure from a stage with   *)
(* another number.                                                         *)
(***************************************************************************)
C28_FailureContext ==
    ppc = "raised" =>
        \A g \in EndingLists :
            Chained(from_single_command(g[1]), Tail(g)) = result
                => FailStage(from_single_command(g[1]), Tail(g), 1) = stage

(***************************************************************************)
(* Helpers of C29.                                                         *)
(***************************************************************************)
\* The option of the command with the parameter.
OptionOf(p) == options[CHOOSE i \in 1..Len(options) : options[i].parameter = p]

\* The value an option has after the keyword arguments and the defaults:
\* the keyword value when the caller gave one, else the default.
ValueFor(p) ==
    IF p \in DOMAIN kwargs THEN kwargs[p] ELSE OptionOf(p).default_value

C30_ExactCloseMatch ==
    [][ (ReadStep /\ story_stack # <<>>) =>
          LET line == Last(buf')
              top  == Last(story_stack)
          IN  /\ Len(story_stack') < Len(story_stack) =>
                    CloseShaped(line) /\ CloseIdent(line) = top.kind
              /\ ( /\ CloseShaped(line)
                   /\ Len(CloseIdent(line)) > Len(top.kind)
                   /\ SubSeq(CloseIdent(line), 1, Len(top.kind)) = top.kind )
                    => /\ pc' = "reading"
                       /\ Len(story_stack') = Len(story_stack)
                       /\ StoredAsContent(top, Last(story_stack'), line)
      ]_vars

(***************************************************************************)
(* Helpers of the properties of from_buf on objects.                       *)
(***************************************************************************)
\* The references a sequence holds.
Refs(seq) == {seq[i] : i \in 1..Len(seq)}

\* The objects created so far.
Created == 1..Len(objects)

(***************************************************************************)
(* C31.  Node lifecycle: the kind of a Story object never changes once the *)
(* object is on the stack; its lines and attributes change only in a step  *)
(* in which it is the top of the stack; its children change only by one    *)
(* more child at the end, in the step in which the story above it is       *)
(* popped and it becomes the top; an object that has been popped is never  *)
(* changed again.                                                          *)
(***************************************************************************)
C31_NodeLifecycle ==
    [][ \A id \in Created :
          /\ id <= Len(objects')
          /\ objects'[id].kind = objects[id].kind
          /\ (stack_refs = <<>> \/ id # Last(stack_refs)) =>
                /\ objects'[id].story_lines = objects[id].story_lines
                /\ objects'[id].story_vals = objects[id].story_vals
          /\ objects'[id].story_subobjects # objects[id].story_subobjects =>
                /\ Len(stack_refs) >= 2
                /\ id = stack_refs[Len(stack_refs) - 1]
                /\ stack_refs' = Front(stack_refs)
                /\ objects'[id].story_subobjects
                      = Append(objects[id].story_subobjects, Last(stack_refs))
          /\ id \notin Refs(stack_refs) => objects'[id] = objects[id]
      ]_vars

\* A story was closed inside another, which then took a raw line: the child
\* is as it was when it was popped.
C31_Witness ==
    /\ hpc = "reading"
    /\ lines_read = << <<"(", "A">>, <<"(", "A">>, <<"a", "=", "3">>, <<")", "A">>,
                       <<"x">> >>
    /\ stack_refs = <<1>>
    /\ objects[1].story_subobjects = <<2>>
    /\ objects[1].story_lines = << <<"x">> >>
    /\ objects[2].story_vals = << <<<<"a">>, <<"3">>>> >>
    /\ objects[2].story_lines = <<>>

(***************************************************************************)
(* Helpers of C32.                                                         *)
(***************************************************************************)
\* The places of a sequence that hold the reference.
PlacesIn(seq, id) == {i \in 1..Len(seq) : seq[i] = id}

\* The places in the children lists of all the objects that hold the
\* reference: parent and position.
PlacesAsChild(id) ==
    {pi \in Created \X (1..MaxLines) :
        /\ pi[2] <= Len(objects[pi[1]].story_subobjects)
        /\ objects[pi[1]].story_subobjects[pi[2]] = id}

(***************************************************************************)
(* C32.  Exclusive ownership: in every state of a parse every Story object *)
(* created is held in exactly one place: once on the stack, or once in the *)
(* children of one object, or once in the result; a child was always       *)
(* created after its parent, so no object is below itself and every result *)
(* is a tree.                                                              *)
(***************************************************************************)
C32_ExclusiveOwnership ==
    /\ \A id \in Created :
          Cardinality(PlacesIn(stack_refs, id))
          + Cardinality(PlacesIn(return_refs, id))
          + Cardinality(PlacesAsChild(id)) = 1
    /\ \A p \in Created :
          \A i \in 1..Len(objects[p].story_subobjects) :
              /\ objects[p].story_subobjects[i] \in Created
              /\ objects[p].story_subobjects[i] > p
    /\ Refs(stack_refs) \cup Refs(return_refs) \subseteq Created

\* One story is in the result, one is on the stack, and one is a child of
\* the story on the stack.
C32_Witness ==
    /\ hpc = "reading"
    /\ return_refs = <<1>>
    /\ stack_refs = <<2>>
    /\ Len(objects) = 3
    /\ objects[2].story_subobjects = <<3>>

(***************************************************************************)
(* Helpers of C33.                                                         *)
(***************************************************************************)
\* The line begins with "(" immediately followed by an identifier.
OpenShaped(line) ==
    Len(line) >= 2 /\ line[1] = "(" /\ line[2] \in WordChars

\* word is the identifier that follows the "(" of the line: all of its
\* characters are word characters and the line ends or goes on with another
\* character after it.
IsIdentifierOf(word, line) ==
    \E n \in 2..Len(line) :
        /\ word = SubSeq(line, 2, n)
        /\ \A i \in 2..n : line[i] \in WordChars
        /\ (n = Len(line) \/ line[n + 1] \notin WordChars)

(***************************************************************************)
(* C33.  Open marker precedence: reading a line that begins with "("       *)
(* immediately followed by an identifier creates exactly one Story, of     *)
(* that kind and empty, and pushes it on the stack, which grows by one;    *)
(* no Story that existed is changed, so the line is not stored as a line   *)
(* or attribute of the enclosing Story, whatever its kind ("Log" too) and  *)
(* whether or not the line holds "=".                                      *)
(***************************************************************************)
C33_OpenMarkerPrecedence ==
    [][ (/\ hpc = "reading"
         /\ lines_read' # lines_read
         /\ OpenShaped(Last(lines_read')))
        =>
        /\ hpc' = "reading"
        /\ Len(objects') = Len(objects) + 1
        /\ \A id \in Created : objects'[id] = objects[id]
        /\ IsIdentifierOf(objects'[Len(objects')].kind, Last(lines_read'))
        /\ objects'[Len(objects')].story_lines = <<>>
        /\ objects'[Len(objects')].story_vals = <<>>
        /\ objects'[Len(objects')].story_subobjects = <<>>
        /\ stack_refs' = Append(stack_refs, Len(objects'))
        /\ return_refs' = return_refs
      ]_vars

\* An open marker holding "=" was read inside a Log block: it opened a
\* block of kind A and the Log block stored nothing.
C33_Witness ==
    /\ hpc = "reading"
    /\ Len(lines_read) = 2
    /\ Last(lines_read) = <<"(", "A", "=", "1">>
    /\ stack_refs = <<1, 2>>
    /\ objects[1].kind = Log
    /\ objects[1].story_lines = <<>>
    /\ objects[1].story_vals = <<>>
    /\ objects[2].kind = <<"A">>

(***************************************************************************)
(* C34.  apply_command does not change its input: from the call to its     *)
(* return or its exception, every step leaves self, the story the command  *)
(* is applied to, as it was; self is the story the stage before returned   *)
(* and the caller still holds; and a list that apply_command returns has   *)
(* that story, unchanged, at its first place.                              *)
(***************************************************************************)
C34_InputUnchanged ==
    [][ (/\ stage >= 2
         /\ ppc \in {"write", "spawn", "running", "parse"}
         /\ Len(stage_results) >= stage - 1)
        =>
        /\ self' = self
        /\ self = stage_results[stage - 1].value
        /\ current_story' # current_story =>
              /\ current_story.value = self
              /\ current_story'.status = "list" =>
                    /\ Len(current_story'.value) >= 2
                    /\ current_story'.value[1] = self
        /\ \A k \in 1..Len(stage_results) :
              /\ k <= Len(stage_results')
              /\ stage_results'[k] = stage_results[k]
      ]_vars

\* kira was applied to the story of makeking and returned a list: the king
\* story is its first element and it still reads as makeking wrote it.
C34_Witness ==
    /\ ppc = "next"
    /\ stage = 2
    /\ Len(stage_results) = 2
    /\ current_story.status = "list"
    /\ current_story.value[1] = self
    /\ self = stage_results[1].value
    /\ __str__(self) = spawned[2].stdin
    /\ self.story_lines = <<>>

(***************************************************************************)
(* C35.  The caller's list is not modified: when from_command_list has     *)
(* returned or raised, the list it was given holds the same commands in    *)
(* the same order as before the call.                                      *)
(***************************************************************************)
C35_CallerListKept ==
    ppc \in {"returned", "raised"} => command_list = given

(***************************************************************************)
(* C36.  from_buf is total: on every sequence of lines it ends, and it     *)
(* ends with a result or with one of the two errors of the codec, the      *)
(* ValueError of the empty result or the error of the unterminated block;  *)
(* a line that opens nothing, read while no story is open, brings no       *)
(* other failure.                                                          *)
(***************************************************************************)
C36_ParseTotal ==
    pc # "reading" =>
        outcome.status \in {"Story", "list", "ValueError", "UnterminatedBlock"}

(***************************************************************************)
(* Helpers of C37.                                                         *)
(***************************************************************************)
\* The key and the value of a line with one "=": what is left and right of
\* it, without the white space around.
AttributeOf(line) ==
    LET e == CHOOSE i \in EqualsAt(line) : TRUE
    IN  <<strip(SubSeq(line, 1, e - 1)), strip(SubSeq(line, e + 1, Len(line)))>>

(***************************************************************************)
(* C37.  Log suppression is per story: whether a content line becomes an   *)
(* attribute or a raw line is decided by the line and by the kind of the   *)
(* story on top of the stack alone.  Under a top that is not Log a line    *)
(* with one "=" is stored as an attribute, whatever stories are below it   *)
(* on the stack (a Log story too) and whatever children it has closed (a   *)
(* Log child too); under a top of kind Log every line is kept raw; the     *)
(* stories below the top are not touched.                                  *)
(***************************************************************************)
C37_LogPerNode ==
    [][ ContentStep =>
          LET line      == Last(buf')
              before    == Last(story_stack)
              attribute == Cardinality(EqualsAt(line)) = 1 /\ before.kind # Log
          IN  /\ Len(story_stack') = Len(story_stack)
              /\ Front(story_stack') = Front(story_stack)
              /\ Last(story_stack').kind = before.kind
              /\ Last(story_stack').story_subobjects = before.story_subobjects
              /\ attribute =>
                    /\ Last(story_stack').story_lines = before.story_lines
                    /\ \E i \in 1..Len(Last(story_stack').story_vals) :
                          Last(story_stack').story_vals[i] = AttributeOf(line)
              /\ ~attribute =>
                    /\ Last(story_stack').story_lines = Append(before.story_lines, line)
                    /\ Last(story_stack').story_vals = before.story_vals
      ]_vars

\* A story A inside a Log story has taken a=3 as an attribute, and the Log
\* story opened inside A has kept the same line raw.
C37_Witness ==
    /\ pc = "reading"
    /\ buf = << <<"(", "L", "o", "g">>, <<"(", "A">>, <<"a", "=", "3">>,
                <<"(", "L", "o", "g">>, <<"a", "=", "3">> >>
    /\ Len(story_stack) = 3
    /\ story_stack[1].kind = Log
    /\ story_stack[2].story_vals = << << <<"a">>, <<"3">> >> >>
    /\ story_stack[2].story_lines = <<>>
    /\ story_stack[3].kind = Log
    /\ story_stack[3].story_vals = <<>>
    /\ story_stack[3].story_lines = << <<"a", "=", "3">> >>

=============================================================================
